---- MODULE Spec2Model ----
(***************************************************************************)
(* Model of app.py (derivative-bot): the numeric equivalence heuristic     *)
(* numeric_equiv, the three-line decoder of ocr_math, and the /api/check   *)
(* handler check_derivative with its session thread and its polling loop.  *)
(*                                                                         *)
(* Numbers are fixed-point with seven decimals: the integer n stands for   *)
(* n * 1e-7, so One stands for 1.0.                                        *)
(***************************************************************************)
EXTENDS Integers, Sequences, FiniteSets, TLC

VARIABLES
    \* numeric_equiv (one call, stepped through its loop)
    t_idx,        \* number of probe points already visited
    tested,       \* local `tested`
    matched,      \* local `matched`
    fv,           \* f(t) of the last visited point
    gv,           \* g(t) of the last visited point
    numeric_ret,  \* the returned (bool, stats), or None
    \* ocr_math's line parsing (one call)
    ocr_text,     \* the text of the vision model: a sequence of lines
    ocr_out,      \* the returned dict, or None
    \* the /api/check handler
    assistant_id, \* TRUE iff ASSISTANT_ID is set
    submits,      \* how many times the client submits the images
    images,       \* what the two uploaded images show
    cookie,       \* thread_id in the client's session cookie (0: none)
    threads,      \* threads created at the external service
    pc,           \* position of each request
    session,      \* each request's session["thread_id"] (0: none)
    dirty,        \* each request's session was modified
    f_ocr,        \* each request's f_ocr
    g_ocr,        \* each request's g_ocr
    checks,       \* each request's parse / compare result
    st,           \* each request's last polled run status
    run_status,   \* the status of each request's run at the external service
    response      \* each request's response

numVars == <<t_idx, tested, matched, fv, gv, numeric_ret>>
decVars == <<ocr_text, ocr_out>>
reqVars == <<assistant_id, submits, images, cookie, threads, pc, session, dirty,
             f_ocr, g_ocr, checks, st, run_status, response>>
vars == <<numVars, decVars, reqVars>>

None == [ty |-> "None"]

(***************************************************************************)
(* Arithmetic helpers                                                      *)
(***************************************************************************)
One == 10 * 1000 * 1000

IAbs(n) == IF n < 0 THEN -n ELSE n

Max(a, b) == IF a >= b THEN a ELSE b

\* floor(sqrt(n)) by bisection
RECURSIVE ISqrtIn(_, _, _)
ISqrtIn(n, lo, hi) ==
    IF lo >= hi THEN lo
    ELSE LET mid == (lo + hi + 1) \div 2
         IN IF mid * mid <= n THEN ISqrtIn(n, mid, hi) ELSE ISqrtIn(n, lo, mid - 1)

ISqrt(n) == ISqrtIn(n, 0, 40000)

Coarse == 10 * 1000

\* abs() of a real (im = 0) or complex number
Norm(re, im) ==
    IF im = 0 THEN IAbs(re)
    ELSE IF re = 0 THEN IAbs(im)
    ELSE LET a == IAbs(re) \div Coarse
             b == IAbs(im) \div Coarse
         IN Coarse * ISqrt(a * a + b * b)

(***************************************************************************)
(* numeric_equiv                                                           *)
(*                                                                         *)
(* An evaluation f(t) either raises or returns an object:                  *)
(*   ty = "raise"  the call raised                                         *)
(*   ty = "None"   it returned None                                        *)
(*   ty = "obj"    it returned a non-numeric object                        *)
(*   ty = "int", "float"   a Python number                                 *)
(*   ty = "mpf", "mpc"     an mpmath real / complex number                 *)
(* cls is "fin", "nan" or "inf"; for "inf", re is the sign.                *)
(***************************************************************************)
Val(ty, cls, re, im) == [ty |-> ty, cls |-> cls, re |-> re, im |-> im]

Raise == Val("raise", "fin", 0, 0)

NumPts == 9

TolInv == 1000000

MinTested == 4

MinMatched == 3

\* lines 104-105: isinstance(v, float) and (math.isnan(v) or math.isinf(v))
IsFloatNanInf(v) == v.ty = "float" /\ v.cls \in {"nan", "inf"}

\* line 106: fv - gv raises for a non-numeric object
CompareRaises(a, b) == a.ty = "obj" \/ b.ty = "obj"

\* line 106: abs(fv - gv) <= 1e-6 * (1 + abs(fv) + abs(gv))
IsClose(a, b) ==
    IF a.cls = "nan" \/ b.cls = "nan" THEN FALSE
    ELSE IF a.cls = "inf" /\ b.cls = "inf" THEN a.re # b.re
    ELSE IF a.cls = "inf" \/ b.cls = "inf" THEN TRUE
    ELSE LET d == Norm(a.re - b.re, a.im - b.im)
         IN /\ d <= 2000
            /\ d * TolInv <= One + Norm(a.re, a.im) + Norm(b.re, b.im)

Stats(t, m) == [tested |-> t, matched |-> m]

\* lines 101-110: the body of the loop for one probe point
PointStepSwapped(s, a, b) ==
    IF a.ty = "raise" \/ b.ty = "raise" THEN s
    ELSE IF a.ty = "None" \/ b.ty = "None" THEN s
    ELSE IF IsFloatNanInf(a) \/ IsFloatNanInf(b) THEN s
    ELSE IF CompareRaises(a, b) THEN s
    ELSE Stats(s.tested + (IF IsClose(a, b) THEN 1 ELSE 0), s.matched + 1)

PointStep(s, a, b) ==
    IF a.ty = "raise" \/ b.ty = "raise" THEN s
    ELSE IF a.ty = "None" \/ b.ty = "None" THEN s
    ELSE IF IsFloatNanInf(a) \/ IsFloatNanInf(b) THEN s
    ELSE IF CompareRaises(a, b) THEN s
    ELSE Stats(s.tested + 1, s.matched + (IF IsClose(a, b) THEN 1 ELSE 0))

\* line 111: int(0.8 * tested)
Threshold(t) == (8 * t) \div 10

\* lines 111-113
NumericOk(t, m) == t >= MinTested /\ m >= Max(MinMatched, Threshold(t))

NumericReturn(s) ==
    [ty |-> "ret", ok |-> NumericOk(s.tested, s.matched), stats |-> s]

\* What one call of a lambdified expression can produce
Outcomes ==
    { Raise, Val("None", "fin", 0, 0), Val("obj", "fin", 0, 0),
      Val("int", "fin", One, 0), Val("float", "fin", One + 1, 0),
      Val("float", "fin", 2 * One, 0),
      Val("float", "nan", 0, 0), Val("float", "inf", 1, 0),
      Val("mpf", "fin", One, 0), Val("mpf", "nan", 0, 0),
      Val("mpf", "inf", 1, 0), Val("mpf", "inf", -1, 0),
      Val("mpc", "fin", One, 3 * One) }

(***************************************************************************)
(* numeric_equiv as one call, stepped through its loop; the two lambdified *)
(* expressions are arbitrary, so every point draws its two outcomes.       *)
(***************************************************************************)
NumericIdle ==
    /\ t_idx = 0 /\ tested = 0 /\ matched = 0
    /\ fv = None /\ gv = None /\ numeric_ret = None

\* lines 100-110: one iteration
LoopBody ==
    /\ t_idx < NumPts
    /\ \E a \in Outcomes, b \in Outcomes :
          LET s == PointStep(Stats(tested, matched), a, b)
          IN /\ fv' = a
             /\ gv' = b
             /\ tested' = s.tested
             /\ matched' = s.matched
    /\ t_idx' = t_idx + 1
    /\ UNCHANGED <<numeric_ret, decVars, reqVars>>

\* lines 111-113
LoopReturn ==
    /\ t_idx = NumPts
    /\ numeric_ret = None
    /\ numeric_ret' = NumericReturn(Stats(tested, matched))
    /\ UNCHANGED <<t_idx, tested, matched, fv, gv, decVars, reqVars>>

(***************************************************************************)
(* Strings: a string is a sequence of one-character strings.               *)
(***************************************************************************)
LowerCase == << "a", "b", "c", "d", "e", "f", "g", "h", "i", "j", "k", "l", "m",
                "n", "o", "p", "q", "r", "s", "t", "u", "v", "w", "x", "y", "z" >>

UpperCase == << "A", "B", "C", "D", "E", "F", "G", "H", "I", "J", "K", "L", "M",
                "N", "O", "P", "Q", "R", "S", "T", "U", "V", "W", "X", "Y", "Z" >>

\* [A-Za-z]
IsLetter(c) == \E i \in 1..26 : LowerCase[i] = c \/ UpperCase[i] = c

\* str.upper(), one character
ToUpper(c) ==
    IF \E i \in 1..26 : LowerCase[i] = c
    THEN UpperCase[CHOOSE i \in 1..26 : LowerCase[i] = c]
    ELSE c

UpperStr(s) == [i \in 1..Len(s) |-> ToUpper(s[i])]

StartsWith(s, p) == Len(s) >= Len(p) /\ SubSeq(s, 1, Len(p)) = p

RECURSIVE LStrip(_, _)
LStrip(s, ch) ==
    IF s # <<>> /\ Head(s) = ch THEN LStrip(Tail(s), ch) ELSE s

RECURSIVE RStrip(_, _)
RStrip(s, ch) ==
    IF s # <<>> /\ s[Len(s)] = ch THEN RStrip(SubSeq(s, 1, Len(s) - 1), ch) ELSE s

\* the backquote character
BackQuote == "BACKQUOTE"

\* str.strip()
Strip(s) == RStrip(LStrip(s, " "), " ")

\* str.strip(BackQuote)
StripTicks(s) == RStrip(LStrip(s, BackQuote), BackQuote)

\* line.split(":", 1)[1]
AfterColon(line) ==
    LET i == CHOOSE k \in 1..Len(line) :
                 line[k] = ":" /\ \A j \in 1..(k - 1) : line[j] # ":"
    IN SubSeq(line, i + 1, Len(line))

\* re.sub(r"[^A-Za-z]", "", s)
OnlyLetters(s) == SelectSeq(s, IsLetter)

\* text.strip().splitlines(), the text given as its lines
StripText(lines) ==
    IF lines = <<>> THEN lines
    ELSE LET a == [lines EXCEPT ![1] = LStrip(lines[1], " ")]
         IN [a EXCEPT ![Len(a)] = RStrip(a[Len(a)], " ")]

SYMPY_LABEL == << "S", "Y", "M", "P", "Y", ":" >>

LATEX_LABEL == << "L", "A", "T", "E", "X", ":" >>

VAR_LABEL == << "V", "A", "R", ":" >>

\* lines 151-157: the loop over the lines
RECURSIVE ScanLines(_, _, _)
ScanLines(lines, i, acc) ==
    IF i > Len(lines) THEN acc
    ELSE LET line == lines[i]
             u == UpperStr(line)
         IN ScanLines(lines, i + 1,
                IF StartsWith(u, SYMPY_LABEL)
                THEN [acc EXCEPT !.sympy_s = Strip(AfterColon(line))]
                ELSE IF StartsWith(u, LATEX_LABEL)
                THEN [acc EXCEPT !.latex_s = Strip(AfterColon(line))]
                ELSE IF StartsWith(u, VAR_LABEL)
                THEN [acc EXCEPT !.var_s = Strip(AfterColon(line))]
                ELSE acc)

\* line 163: re.sub(r"[^A-Za-z]", "", var_s) or "x"
CleanVarFirstOnly(var_s) ==
    IF OnlyLetters(var_s) = <<>> THEN <<"x">> ELSE var_s

CleanVar(var_s) ==
    IF OnlyLetters(var_s) = <<>> THEN <<"x">> ELSE OnlyLetters(var_s)

\* lines 150-169: the parsing part of ocr_math
ParseLines(text) ==
    LET acc == ScanLines(StripText(text), 1,
                         [sympy_s |-> <<>>, latex_s |-> <<>>, var_s |-> <<>>])
        var0 == IF acc.var_s = <<>> THEN <<"x">> ELSE acc.var_s
        sympy_s == StripTicks(Strip(acc.sympy_s))
        latex_s == StripTicks(Strip(acc.latex_s))
    IN [ty |-> "dict",
        expr_sympy |-> sympy_s,
        expr_latex |-> IF latex_s # <<>> THEN latex_s ELSE sympy_s,
        variable |-> CleanVar(var0)]

(***************************************************************************)
(* The parsing part of ocr_math as one call on an arbitrary text.          *)
(***************************************************************************)
MaxVarLen == 3

VarAlphabet == {"x", "T", "1", " "}

RECURSIVE StringsUpTo(_)
StringsUpTo(n) ==
    IF n = 0 THEN {<<>>}
    ELSE LET shorter == StringsUpTo(n - 1)
         IN shorter \cup {Append(s, c) : s \in shorter, c \in VarAlphabet}

VarLabels == { << "V", "A", "R", ":" >>, << "v", "a", "r", ":" >>,
               << " ", "V", "A", "R", ":" >> }

SympyLine == << "S", "Y", "M", "P", "Y", ":", " ", "x" >>

DecoderTexts ==
    { <<SympyLine>> } \cup
    { <<SympyLine, l \o v>> : l \in VarLabels, v \in StringsUpTo(MaxVarLen) }

DecoderIdle == ocr_text = <<>> /\ ocr_out = None

DecodeStep ==
    /\ ocr_out = None
    /\ ocr_out' = ParseLines(ocr_text)
    /\ UNCHANGED <<ocr_text, numVars, reqVars>>


(***************************************************************************)
(* SymPy: names, formulas and expressions.                                 *)
(*                                                                         *)
(* A formula text is  k * (c0 + c1*pv + c2*pv**2) + eps + fn(arg)  with    *)
(* integer coefficients c, a float literal eps, and identifiers pv, k, fn, *)
(* arg (the empty string: that part is absent; fn = "/" writes 1/arg).     *)
(* An expression has the same shape over symbols and functions.            *)
(***************************************************************************)
NoName == <<>>

ID_x == << "x" >>

ID_y == << "y" >>

ID_z == << "z" >>

ID_t == << "t" >>

ID_pi == << "p", "i" >>

ID_E == << "E" >>

ID_log == << "l", "o", "g" >>

ID_ln == << "l", "n" >>

ID_foo == << "f", "o", "o" >>

ID_sign == << "s", "i", "g", "n" >>

ID_recip == << "/" >>

FunctionNames ==
    { << "s", "i", "n" >>, << "c", "o", "s" >>, << "t", "a", "n" >>,
      << "c", "o", "t" >>, << "s", "e", "c" >>, << "c", "s", "c" >>,
      << "a", "s", "i", "n" >>, << "a", "c", "o", "s" >>, << "a", "t", "a", "n" >>,
      << "s", "i", "n", "h" >>, << "c", "o", "s", "h" >>, << "t", "a", "n", "h" >>,
      << "a", "s", "i", "n", "h" >>, << "a", "c", "o", "s", "h" >>,
      << "a", "t", "a", "n", "h" >>,
      ID_ln, ID_log, << "e", "x", "p" >>, << "s", "q", "r", "t" >>,
      << "A", "b", "s" >> }

Symbol(name) == [kind |-> "symbol", name |-> name]

Func(name) == [kind |-> "func", name |-> name]

Const(name) == [kind |-> "const", name |-> name]

\* lines 77-88: the dict; a later key of the literal overrides varname
allowed_locals(varname) ==
    [n \in {varname, ID_x, ID_y, ID_pi, ID_E} \cup FunctionNames |->
        IF n \in FunctionNames THEN Func(IF n = ID_ln THEN ID_log ELSE n)
        ELSE IF n \in {ID_pi, ID_E} THEN Const(n)
        ELSE IF n = ID_y THEN Symbol(ID_y)
        ELSE Symbol(varname)]

\* names sympify finds in SymPy's own namespace (from sympy import *)
SympyGlobals == [n \in {ID_sign} |-> Func(n)]

\* sympify's lookup of a name: locals, SymPy's namespace, then a new
\* Symbol (a new undefined Function before a parenthesis)
Resolve(name, locals, called) ==
    IF name \in DOMAIN locals THEN locals[name]
    ELSE IF name \in DOMAIN SympyGlobals THEN SympyGlobals[name]
    ELSE IF called THEN Func(name)
    ELSE Symbol(name)

Formula(syntax, c, pv, k, eps, fn, arg) ==
    [syntax |-> syntax, c |-> c, pv |-> pv, k |-> k, eps |-> eps,
     fn |-> fn, arg |-> arg]

Poly(c, pv) == Formula("ok", c, pv, NoName, 0, NoName, NoName)

Call(fn, arg) == Formula("ok", <<0, 0, 0>>, NoName, NoName, 0, fn, arg)

\* the formula texts the images may show, by their text
FormulaTable ==
    [name \in { "x**2", "log(x)", "z*x", "2*(x", "2*x", "2*x + 1e-7", "3*x",
                "1/x", "z", "foo(x)", "2*t" } |->
        CASE name = "x**2" -> Poly(<<0, 0, 1>>, ID_x)
          [] name = "log(x)" -> Call(ID_log, ID_x)
          [] name = "z*x" -> Formula("ok", <<0, 1, 0>>, ID_x, ID_z, 0, NoName, NoName)
          [] name = "2*(x" -> Formula("unbalanced", <<0, 2, 0>>, ID_x, NoName, 0, NoName, NoName)
          [] name = "2*x" -> Poly(<<0, 2, 0>>, ID_x)
          [] name = "2*x + 1e-7" -> Formula("ok", <<0, 2, 0>>, ID_x, NoName, 1, NoName, NoName)
          [] name = "3*x" -> Poly(<<0, 3, 0>>, ID_x)
          [] name = "1/x" -> Call(ID_recip, ID_x)
          [] name = "z" -> Formula("ok", <<1, 0, 0>>, NoName, ID_z, 0, NoName, NoName)
          [] name = "foo(x)" -> Call(ID_foo, ID_x)
          [] name = "2*t" -> Poly(<<0, 2, 0>>, ID_t)]

\* the identifiers a formula text contains
Identifiers(f) ==
    (IF f.c[2] # 0 \/ f.c[3] # 0 THEN {f.pv} ELSE {})
    \cup (IF f.k # NoName THEN {f.k} ELSE {})
    \cup (IF f.fn \notin {NoName, ID_recip} THEN {f.fn} ELSE {})
    \cup (IF f.fn # NoName THEN {f.arg} ELSE {})

Expr(c, psym, ksym, eps, fn, asym) ==
    [ty |-> "expr", c |-> c, psym |-> psym, ksym |-> ksym, eps |-> eps,
     fn |-> fn, asym |-> asym]

\* SymPy's automatic evaluation, one form per value: 0*k = 0, and a part that
\* is absent names no symbol (k is never the symbol of the polynomial)
Canon(e) ==
    LET zero == e.c = <<0, 0, 0>>
        flat == e.c[2] = 0 /\ e.c[3] = 0
    IN Expr(e.c,
            IF flat THEN NoName ELSE e.psym,
            IF zero THEN NoName ELSE e.ksym,
            e.eps,
            e.fn,
            IF e.fn = NoName THEN NoName ELSE e.asym)

SympifyError(text) == [ty |-> "SympifyError", expr |-> text]

\* sympify(expr_str, locals=...) on a decoded expr_sympy string
Sympify(expr_str, locals) ==
    IF Len(expr_str) # 1 \/ expr_str[1] \notin DOMAIN FormulaTable
    THEN SympifyError(expr_str)
    ELSE LET f == FormulaTable[expr_str[1]]
             pv == Resolve(f.pv, locals, FALSE)
             k == Resolve(f.k, locals, FALSE)
             fn == IF f.fn = ID_recip THEN Func(ID_recip) ELSE Resolve(f.fn, locals, TRUE)
             arg == Resolve(f.arg, locals, FALSE)
             bad == \/ f.syntax # "ok"
                    \/ \E o \in {pv, k, fn, arg} : o.kind = "NameError"
                    \/ (f.pv \in Identifiers(f) /\ pv.kind # "symbol")
                    \/ (f.k # NoName /\ k.kind # "symbol")
                    \/ (f.fn # NoName /\ (fn.kind # "func" \/ arg.kind # "symbol"))
         IN IF bad THEN SympifyError(expr_str)
            ELSE Canon(Expr(f.c,
                            IF f.pv \in Identifiers(f) THEN pv.name ELSE NoName,
                            IF f.k # NoName THEN k.name ELSE NoName,
                            f.eps,
                            IF f.fn # NoName THEN fn.name ELSE NoName,
                            IF f.fn # NoName THEN arg.name ELSE NoName))

\* lines 90-91
parse_sympy(expr_str, varname) == Sympify(expr_str, allowed_locals(varname))

\* the derivative of a function, by name
DiffFn(fn) == IF fn = ID_log THEN ID_recip ELSE << "D" >> \o fn

\* line 207: simplify(diff(f_expr, x))
Diff(e, var) ==
    Canon(Expr(IF e.psym = var THEN <<e.c[2], 2 * e.c[3], 0>> ELSE <<0, 0, 0>>,
               IF e.psym = var THEN e.psym ELSE NoName,
               e.ksym,
               0,
               IF e.fn # NoName /\ e.asym = var THEN DiffFn(e.fn) ELSE NoName,
               e.asym))

\* line 210: simplify(fprime - g_expr) == 0
SymbolicEqual(a, b) == Canon(a) = Canon(b)

FreeSymbols(e) ==
    {n \in {e.psym, e.ksym, e.asym} : n # NoName}

\* line 98: pts, each times 6
Pts6 == << -18, -12, -6, -3, -2, 3, 6, 12, 18 >>

\* t, t**2, log|t| and 1/t at the probe points
Lin(i) == (IF Pts6[i] < 0 THEN -1 ELSE 1) * ((IAbs(Pts6[i]) * One) \div 6)

Sq(i) == (Pts6[i] * Pts6[i] * (One \div 4)) \div 9

LogAbs == << 10986123, 6931472, 0, -6931472, -10986123, -6931472, 0, 6931472, 10986123 >>

Recip == << -3333333, -5000000, -10000000, -20000000, -30000000,
            20000000, 10000000, 5000000, 3333333 >>

\* lines 96-97 and 102: the lambdified expression (module mpmath) at point i
Eval(e, var, i) ==
    IF FreeSymbols(e) \ {var} # {} THEN Raise
    ELSE IF e.fn \notin {NoName, ID_log, ID_recip} THEN Raise
    ELSE LET p == e.c[1] * One + e.c[2] * Lin(i) + e.c[3] * Sq(i) + e.eps
         IN IF e.fn = ID_log
            THEN IF Pts6[i] > 0
                 THEN Val("mpf", "fin", p + LogAbs[i], 0)
                 ELSE Val("mpc", "fin", p + LogAbs[i], 31415927)
            ELSE LET v == IF e.fn = ID_recip THEN p + Recip[i] ELSE p
                 IN IF e.eps # 0 THEN Val("mpf", "fin", v, 0)
                    ELSE IF e.fn = NoName /\ Pts6[i] % 6 = 0 THEN Val("int", "fin", v, 0)
                    ELSE Val("float", "fin", v, 0)

\* lines 98-110: the loop, from point i on
RECURSIVE NumericLoop(_, _, _, _, _)
NumericLoop(f, g, var, i, s) ==
    IF i > NumPts THEN s
    ELSE NumericLoop(f, g, var, i + 1, PointStep(s, Eval(f, var, i), Eval(g, var, i)))

\* lines 93-113
numeric_equiv(f_expr, g_expr, varname) ==
    NumericReturn(NumericLoop(f_expr, g_expr, varname, 1, Stats(0, 0)))


(***************************************************************************)
(* The /api/check handler, check_derivative.                               *)
(***************************************************************************)
MaxRequests == 2

Requests == 1..MaxRequests

Terminal == {"completed", "failed", "cancelled", "expired"}

\* any status the loop does not leave on
NonTerminal == {"queued"}

\* what the vision model returns for an image showing `name` (the empty
\* string: nothing legible) with the variable line `var`
Transcript(name, var) ==
    (IF name = "" THEN <<>> ELSE << SYMPY_LABEL \o << " ", name >> >>)
    \o << LATEX_LABEL \o << " ", "$" >> >>
    \o (IF var = NoName THEN <<>> ELSE << VAR_LABEL \o << " " >> \o var >>)

FTexts == {"x**2", "log(x)", "z*x", "2*(x", ""}

GTexts == DOMAIN FormulaTable \cup {""}

VarLines == {NoName, ID_t, << "x", "1" >>}

Hints == {NoName, ID_t}

\* line 190: (data.get("variable") or "x").strip() or "x"
HintVar(variable) == IF Strip(variable) = <<>> THEN ID_x ELSE Strip(variable)

\* line 201: (f_ocr.get("variable") or varname).strip() or varname
ActiveVar(f, varname) ==
    LET v == Strip(IF f.variable # <<>> THEN f.variable ELSE varname)
    IN IF v # <<>> THEN v ELSE varname

\* line 212
VerdictBoth(symbolic_ok, numeric_ok) ==
    IF symbolic_ok /\ numeric_ok THEN "correct" ELSE "incorrect"

Verdict(symbolic_ok, numeric_ok) ==
    IF symbolic_ok \/ numeric_ok THEN "correct" ELSE "incorrect"

\* lines 200-212: parse, differentiate, compare
Compare(f, g, varname) ==
    LET var == ActiveVar(f, varname)
        f_expr == parse_sympy(f.expr_sympy, var)
        g_expr == parse_sympy(g.expr_sympy, var)
    IN IF f_expr.ty = "SympifyError"
       THEN [ty |-> "raised", at |-> "f_expr", exc |-> f_expr, var |-> var]
       ELSE IF g_expr.ty = "SympifyError"
       THEN [ty |-> "raised", at |-> "g_expr", exc |-> g_expr, var |-> var]
       ELSE LET fprime == Diff(f_expr, var)
                symbolic_ok == SymbolicEqual(fprime, g_expr)
                num == numeric_equiv(fprime, g_expr, var)
            IN [ty |-> "compared", var |-> var, f_expr |-> f_expr,
                g_expr |-> g_expr, fprime |-> fprime,
                symbolic_ok |-> symbolic_ok, numeric_ok |-> num.ok,
                stats |-> num.stats,
                verdict |-> Verdict(symbolic_ok, num.ok)]

\* lines 304-305
ServerException(e) ==
    [status |-> 500, body |-> [error |-> "server_exception", details |-> e]]

\* lines 245, 255, 269
BadGateway(error) ==
    [status |-> 502, body |-> [error |-> error]]

\* lines 283-302
Out(c) ==
    [status |-> 200,
     body |-> [parsed |-> [f_expr_sympy |-> c.f_expr, g_expr_sympy |-> c.g_expr,
                           variable |-> c.var],
               computed_fprime |-> c.fprime,
               checks |-> [symbolic_equal |-> c.symbolic_ok,
                           numeric_equal |-> c.numeric_ok,
                           numeric_stats |-> c.stats],
               verdict |-> c.verdict]]

\* line 265
LoopExits(status) == status \in Terminal

\* line 268
RunFailedNever(status) == FALSE

RunFailed(status) == status # "completed"

\* the response leaves; Flask stores a modified session in the cookie
Finish(r, resp, thread_id, modified) ==
    /\ response' = [response EXCEPT ![r] = resp]
    /\ pc' = [pc EXCEPT ![r] = "done"]
    /\ cookie' = IF modified THEN thread_id ELSE cookie

\* lines 187-193: the request arrives with the cookie the client holds
Receive(r) ==
    /\ pc[r] = "idle"
    /\ r <= submits
    /\ session' = [session EXCEPT ![r] = cookie]
    /\ \/ /\ Finish(r, [status |-> 400,
                        body |-> [error |-> "Both f_image and g_image are required (data URLs)."]],
                    cookie, FALSE)
       \/ /\ pc' = [pc EXCEPT ![r] = "ocr"]
          /\ UNCHANGED <<cookie, response>>
    /\ UNCHANGED <<assistant_id, submits, images, threads, dirty, f_ocr, g_ocr, checks,
                   st, run_status, numVars, decVars>>

\* lines 196-198: both OCR calls; either may raise
Ocr(r) ==
    /\ pc[r] = "ocr"
    /\ \/ /\ Finish(r, ServerException([ty |-> "RuntimeError"]), session[r], dirty[r])
          /\ UNCHANGED <<f_ocr, g_ocr>>
       \/ /\ f_ocr' = [f_ocr EXCEPT ![r] = ParseLines(Transcript(images.f, images.var))]
          /\ g_ocr' = [g_ocr EXCEPT ![r] = ParseLines(Transcript(images.g, ID_x))]
          /\ pc' = [pc EXCEPT ![r] = "check"]
          /\ UNCHANGED <<cookie, response>>
    /\ UNCHANGED <<assistant_id, submits, images, threads, session, dirty, checks,
                   st, run_status, numVars, decVars>>

\* lines 200-223 (and 282-305 when ASSISTANT_ID is not set)
Check(r) ==
    /\ pc[r] = "check"
    /\ LET c == Compare(f_ocr[r], g_ocr[r], HintVar(images.variable))
       IN /\ checks' = [checks EXCEPT ![r] = c]
          /\ IF c.ty = "raised"
             THEN Finish(r, ServerException(c.exc), session[r], dirty[r])
             ELSE IF ~assistant_id
             THEN Finish(r, Out(c), session[r], dirty[r])
             ELSE /\ pc' = [pc EXCEPT ![r] = "thread"]
                  /\ UNCHANGED <<cookie, response>>
    /\ UNCHANGED <<assistant_id, submits, images, threads, session, dirty, f_ocr, g_ocr,
                   st, run_status, numVars, decVars>>

\* lines 67-74 and 225
ensure_thread(r) ==
    /\ pc[r] = "thread"
    /\ \/ /\ session[r] # 0
          /\ pc' = [pc EXCEPT ![r] = "msg"]
          /\ UNCHANGED <<cookie, response, threads, session, dirty>>
       \/ /\ session[r] = 0
          /\ threads' = threads + 1
          /\ session' = [session EXCEPT ![r] = threads + 1]
          /\ dirty' = [dirty EXCEPT ![r] = TRUE]
          /\ pc' = [pc EXCEPT ![r] = "msg"]
          /\ UNCHANGED <<cookie, response>>
       \/ /\ session[r] = 0
          /\ Finish(r, ServerException([ty |-> "HTTPError"]), session[r], dirty[r])
          /\ UNCHANGED <<threads, session, dirty>>
    /\ UNCHANGED <<assistant_id, submits, images, f_ocr, g_ocr, checks, st, run_status,
                   numVars, decVars>>

\* lines 237-245
AddMessage(r) ==
    /\ pc[r] = "msg"
    /\ \/ Finish(r, BadGateway("Assistant add-message error"), session[r], dirty[r])
       \/ Finish(r, ServerException([ty |-> "RequestException"]), session[r], dirty[r])
       \/ /\ pc' = [pc EXCEPT ![r] = "run"]
          /\ UNCHANGED <<cookie, response>>
    /\ UNCHANGED <<assistant_id, submits, images, threads, session, dirty, f_ocr, g_ocr,
                   checks, st, run_status, numVars, decVars>>

\* lines 247-256
CreateRun(r) ==
    /\ pc[r] = "run"
    /\ \/ /\ Finish(r, BadGateway("Assistant run error"), session[r], dirty[r])
          /\ UNCHANGED run_status
       \/ /\ Finish(r, ServerException([ty |-> "RequestException"]), session[r], dirty[r])
          /\ UNCHANGED run_status
       \/ /\ pc' = [pc EXCEPT ![r] = "poll"]
          /\ run_status' = [run_status EXCEPT ![r] = "queued"]
          /\ UNCHANGED <<cookie, response>>
    /\ UNCHANGED <<assistant_id, submits, images, threads, session, dirty, f_ocr, g_ocr,
                   checks, st, numVars, decVars>>

\* lines 259-269: one iteration of the loop and, when it exits, the test of st
Poll(r) ==
    /\ pc[r] = "poll"
    /\ \/ /\ Finish(r, ServerException([ty |-> "RequestException"]), session[r], dirty[r])
          /\ UNCHANGED st
       \/ /\ st' = [st EXCEPT ![r] = run_status[r]]
          /\ IF ~LoopExits(run_status[r])
             THEN UNCHANGED <<pc, cookie, response>>
             ELSE IF RunFailed(run_status[r])
             THEN Finish(r, BadGateway(<<"run status", run_status[r]>>), session[r], dirty[r])
             ELSE /\ pc' = [pc EXCEPT ![r] = "reply"]
                  /\ UNCHANGED <<cookie, response>>
    /\ UNCHANGED <<assistant_id, submits, images, threads, session, dirty, f_ocr, g_ocr,
                   checks, run_status, numVars, decVars>>

\* lines 271-302
ReadReply(r) ==
    /\ pc[r] = "reply"
    /\ \/ Finish(r, ServerException([ty |-> "RequestException"]), session[r], dirty[r])
       \/ Finish(r, Out(checks[r]), session[r], dirty[r])
    /\ UNCHANGED <<assistant_id, submits, images, threads, session, dirty, f_ocr, g_ocr,
                   checks, st, run_status, numVars, decVars>>

\* the external service moves a run on; a terminal status stays
RunProgress(r) ==
    /\ pc[r] = "poll"
    /\ run_status[r] \in NonTerminal
    /\ \E s \in (NonTerminal \cup Terminal) \ {run_status[r]} :
          run_status' = [run_status EXCEPT ![r] = s]
    /\ UNCHANGED <<assistant_id, submits, images, cookie, threads, pc, session, dirty,
                   f_ocr, g_ocr, checks, st, response, numVars, decVars>>

HandlerIdle ==
    /\ cookie = 0
    /\ threads = 0
    /\ pc = [r \in Requests |-> "idle"]
    /\ session = [r \in Requests |-> 0]
    /\ dirty = [r \in Requests |-> FALSE]
    /\ f_ocr = [r \in Requests |-> None]
    /\ g_ocr = [r \in Requests |-> None]
    /\ checks = [r \in Requests |-> None]
    /\ st = [r \in Requests |-> "none"]
    /\ run_status = [r \in Requests |-> "none"]
    /\ response = [r \in Requests |-> None]

(***************************************************************************)
(* Specifications                                                          *)
(***************************************************************************)
\* the handler and one student session: any pair of images submitted once,
\* or one pair of images submitted MaxRequests times, concurrently or not
Init ==
    /\ \/ /\ submits = 1
          /\ assistant_id \in BOOLEAN
          /\ images \in [f : FTexts, g : GTexts, var : VarLines, variable : Hints]
       \/ /\ submits = MaxRequests
          /\ assistant_id = TRUE
          /\ images = [f |-> "x**2", g |-> "2*x", var |-> NoName, variable |-> NoName]
    /\ HandlerIdle
    /\ NumericIdle
    /\ DecoderIdle

Step(r) ==
    \/ Receive(r)
    \/ Ocr(r)
    \/ Check(r)
    \/ ensure_thread(r)
    \/ AddMessage(r)
    \/ CreateRun(r)
    \/ Poll(r)
    \/ ReadReply(r)

Next == \E r \in Requests : Step(r) \/ RunProgress(r)

Spec == Init /\ [][Next]_vars

\* one request with ASSISTANT_ID set; a handler that polls keeps running
InitLive ==
    /\ submits = 1
    /\ assistant_id = TRUE
    /\ images \in [f : FTexts, g : GTexts, var : VarLines, variable : Hints]
    /\ HandlerIdle
    /\ NumericIdle
    /\ DecoderIdle

SpecLive ==
    /\ InitLive
    /\ [][Next]_vars
    /\ \A r \in Requests : WF_vars(Poll(r)) /\ WF_vars(ReadReply(r))

\* one call of numeric_equiv
InitNumeric ==
    /\ assistant_id = FALSE
    /\ submits = 1
    /\ images = [f |-> "", g |-> "", var |-> NoName, variable |-> NoName]
    /\ HandlerIdle
    /\ NumericIdle
    /\ DecoderIdle

NextNumeric == LoopBody \/ LoopReturn

SpecNumeric == InitNumeric /\ [][NextNumeric]_vars

\* one call of the parsing part of ocr_math
InitDecoder ==
    /\ assistant_id = FALSE
    /\ submits = 1
    /\ images = [f |-> "", g |-> "", var |-> NoName, variable |-> NoName]
    /\ HandlerIdle
    /\ NumericIdle
    /\ ocr_text \in DecoderTexts
    /\ ocr_out = None

NextDecoder == DecodeStep

SpecDecoder == InitDecoder /\ [][NextDecoder]_vars


(***************************************************************************)
(* Claims                                                                  *)
(***************************************************************************)
Ceil8(t) == (8 * t + 9) \div 10

\* C1 (as claimed): numeric_equiv returns true iff tested >= 4 and
\* matched >= max(3, ceil(0.8 * tested)).
C1_CeilThreshold ==
    numeric_ret # None =>
        (numeric_ret.ok <=>
            /\ numeric_ret.stats.tested >= 4
            /\ numeric_ret.stats.matched >= Max(3, Ceil8(numeric_ret.stats.tested)))

Unusable(v) == v.ty = "raise" \/ v.cls \in {"nan", "inf"} \/ v.ty = "mpc"

\* C2 (as claimed): a point where either evaluation raises or yields NaN, an
\* infinity or a non-real value changes neither tested nor matched.
C2_UnusablePointSkipped ==
    [][t_idx' = t_idx + 1 /\ (Unusable(fv') \/ Unusable(gv'))
          => tested' = tested /\ matched' = matched]_vars

\* the formula an expr_sympy string shows
FormulaOf(expr_str) ==
    IF Len(expr_str) = 1 /\ expr_str[1] \in DOMAIN FormulaTable
    THEN FormulaTable[expr_str[1]]
    ELSE Poly(<<0, 0, 0>>, NoName)

OutsideVocabulary(r) ==
    \E id \in Identifiers(FormulaOf(f_ocr[r].expr_sympy))
                 \cup Identifiers(FormulaOf(g_ocr[r].expr_sympy)) :
        id \notin DOMAIN allowed_locals(checks[r].var)

\* C3 (as claimed): a formula with an identifier outside allowed_locals
\* gives a parse error: no expression, and no verdict in the response.
C3_UnknownNameRejected ==
    \A r \in Requests :
        (checks[r] # None /\ OutsideVocabulary(r)) =>
            /\ checks[r].ty = "raised"
            /\ pc[r] = "done" => "verdict" \notin DOMAIN response[r].body

\* C4 (as claimed): the response to a failed build of f or g names the side
\* that failed, carries the formula text and has no EquivalenceResult field.
C4_FailureNamesSide ==
    \A r \in Requests :
        (pc[r] = "done" /\ checks[r] # None /\ checks[r].ty = "raised") =>
            LET b == response[r].body
            IN /\ "side" \in DOMAIN b
               /\ b.side = checks[r].at
               /\ b.details.expr = checks[r].exc.expr
               /\ DOMAIN b \cap {"checks", "verdict"} = {}

\* C5: in every 200 response the verdict is "correct" iff symbolic_equal or
\* numeric_equal, "incorrect" otherwise, and the reported stats are those of
\* the numeric test on the derivative and g, whatever symbolic_equal is.
C5_VerdictIsOr ==
    \A r \in Requests :
        (pc[r] = "done" /\ response[r].status = 200) =>
            LET b == response[r].body
            IN /\ b.verdict \in {"correct", "incorrect"}
               /\ b.verdict = "correct"
                     <=> (b.checks.symbolic_equal \/ b.checks.numeric_equal)
               /\ b.checks.symbolic_equal
                     = SymbolicEqual(b.computed_fprime, b.parsed.g_expr_sympy)
               /\ [ty |-> "ret", ok |-> b.checks.numeric_equal,
                   stats |-> b.checks.numeric_stats]
                     = numeric_equiv(b.computed_fprime, b.parsed.g_expr_sympy,
                                     b.parsed.variable)

\* symbolically equal, nowhere evaluable, still "correct"
C5_Witness ==
    \E r \in Requests :
        /\ pc[r] = "done"
        /\ response[r].status = 200
        /\ response[r].body.checks.symbolic_equal
        /\ ~response[r].body.checks.numeric_equal
        /\ response[r].body.checks.numeric_stats.tested = 0
        /\ response[r].body.verdict = "correct"

\* the VAR value of a text of DecoderTexts (empty: no VAR line is read)
VarField(text) ==
    IF Len(text) = 2 /\ StartsWith(UpperStr(text[2]), VAR_LABEL)
    THEN AfterColon(text[2])
    ELSE <<>>

\* C6 (as claimed): the decoded variable is exactly one ASCII letter.
C6_SingleLetter ==
    ocr_out # None => Len(ocr_out.variable) = 1 /\ IsLetter(ocr_out.variable[1])

\* C6 (amended): the decoded variable is a non-empty string of ASCII letters,
\* the letters of the VAR value in their order: one letter when the value
\* holds one letter, and "x" when the field is absent or holds no letter.
C6_LettersOnly ==
    ocr_out # None =>
        LET v == ocr_out.variable
            letters == SelectSeq(VarField(ocr_text), IsLetter)
        IN /\ Len(v) >= 1
           /\ \A i \in 1..Len(v) : IsLetter(v[i])
           /\ v = IF letters = <<>> THEN <<"x">> ELSE letters

\* a VAR value with a digit between two letters
C6_Witness ==
    /\ ocr_out # None
    /\ VarField(ocr_text) = << "x", "1", "T" >>
    /\ ocr_out.variable = << "x", "T" >>

\* C7: 0 <= matched <= tested <= 9 throughout the loop and in the result.
C7_StatsBounds ==
    /\ 0 <= matched /\ matched <= tested /\ tested <= t_idx /\ t_idx <= NumPts
    /\ numeric_ret # None =>
          /\ 0 <= numeric_ret.stats.matched
          /\ numeric_ret.stats.matched <= numeric_ret.stats.tested
          /\ numeric_ret.stats.tested <= NumPts

\* the last point raised, after skipped, matching and mismatching points
C7_Witness ==
    /\ numeric_ret # None
    /\ fv.ty = "raise"
    /\ numeric_ret.stats = Stats(5, 2)

\* C9 (as claimed): at most one thread is created for the session, and all
\* its requests use the same thread_id.
C9_OneThreadPerSession ==
    /\ threads <= 1
    /\ \A p \in Requests, q \in Requests :
          (session[p] # 0 /\ session[q] # 0) => session[p] = session[q]

ExitsPoll(r) == pc[r] = "poll" /\ pc'[r] # "poll"

NoVerdict(resp) == DOMAIN resp.body \cap {"checks", "verdict"} = {}

\* what the loop's normal exit leads to
NormalExit(r) ==
    /\ st'[r] \in Terminal
    /\ st'[r] = "completed" => pc'[r] = "reply"
    /\ st'[r] # "completed" =>
          /\ pc'[r] = "done"
          /\ response'[r].status = 502
          /\ NoVerdict(response'[r])

\* a 200 response of a polling request comes from a completed run
OnlyCompletedAnswers ==
    \A r \in Requests :
        /\ pc[r] = "reply" => st[r] = "completed"
        /\ (pc[r] = "done" /\ assistant_id /\ response[r].status = 200)
              => st[r] = "completed"

TerminalResponds ==
    \A r \in Requests :
        (pc[r] = "poll" /\ run_status[r] \in Terminal) ~> (pc[r] = "done")

\* C10 (as claimed): the polling loop is left only on a terminal status,
\* with 200 only for completed and 502 without a verdict otherwise; a run
\* that becomes terminal is answered.
C10_ExitOnlyOnTerminal ==
    /\ [][\A r \in Requests : ExitsPoll(r) => NormalExit(r)]_vars
    /\ []OnlyCompletedAnswers
    /\ TerminalResponds

\* C10 (amended): the polling loop is left only on a terminal status or by
\* an exception of a poll request, which answers 500 without a verdict; 200
\* only for completed, 502 without a verdict for another terminal status; a
\* run that becomes terminal is answered.
C10_ExitOnTerminalOrException ==
    /\ [][\A r \in Requests :
            ExitsPoll(r) =>
               \/ NormalExit(r)
               \/ /\ st'[r] = st[r]
                  /\ pc'[r] = "done"
                  /\ response'[r].status = 500
                  /\ NoVerdict(response'[r])]_vars
    /\ []OnlyCompletedAnswers
    /\ TerminalResponds

\* a run that expired is answered 502
C10_Witness ==
    \E r \in Requests :
        /\ pc[r] = "done"
        /\ st[r] = "expired"
        /\ response[r].status = 502

====
